---- MODULE Spec2Model ----
(***************************************************************************)
(* Firefox Affiliates: the registration / activation workflow of           *)
(* apps/users/models.py and the Celery tasks of apps/facebook/tasks.py.    *)
(*                                                                         *)
(* Strings that the code inspects character by character (activation keys, *)
(* salts, usernames) are sequences of one-character strings.  SHA-1 and    *)
(* HMAC-SHA1 are abstracted as injective functions whose value is a        *)
(* hexdigest of DigestLen lowercase hex characters.                        *)
(***************************************************************************)
EXTENDS Integers, Sequences, FiniteSets, TLC

\* ------------------------------------------------------------------ bounds
MaxCalls == 5
MaxTasks == 3
MaxHour == 1

\* ------------------------------------------------------- program constants
DigestLen == 40
SaltLen == 5
UsernameLen == 30

SITE_URL == "http://badge.mo.com"
ACTIVATION_EMAIL_SUBJECT == "Please activate your Firefox Affiliates account"

\* ------------------------------------------------------------------ inputs
Emails == {"a@example.com", "b@example.com"}
DisplayNames == {"Ann", "Bob"}
RawPasswords == {"secret1"}
HexChars == {"0", "1", "2", "3", "4", "5", "6", "7", "8", "9",
             "a", "b", "c", "d", "e", "f"}

Repeat(c, n) == [i \in 1..n |-> c]

\* random salts: sha1(str(random.random())).hexdigest()[:5]
Salts == {Repeat("0", SaltLen), Repeat("7", SaltLen)}

EmailNibble(email) == IF email = "a@example.com" THEN "a" ELSE "b"

\* hashlib.sha1(x).hexdigest(): 40 lowercase hex characters, injective in x
Sha1Hex(email) == Repeat(EmailNibble(email), DigestLen)

\* hmac.new(salt, email, hashlib.sha1).hexdigest()
HmacSha1Hex(salt, email) ==
    salt \o Repeat(EmailNibble(email), DigestLen - Len(salt))

\* users.utils.hash_password: one-way hash into storage form
hash_password(raw) == <<"hashed", raw>>

\* the keys a caller may present to activate_profile
IssuedKeys == {HmacSha1Hex(s, e) : s \in Salts, e \in Emails}
NewlineKeys ==
    {HmacSha1Hex(Repeat("0", SaltLen), e) \o <<"\n">> : e \in Emails}
MalformedKeys ==
    {Repeat("a", DigestLen - 1), Repeat("A", DigestLen)} \cup NewlineKeys
Keys == IssuedKeys \cup {Repeat("c", DigestLen)} \cup MalformedKeys

\* ------------------------------------------------------------------- state
VARIABLES
    registerProfiles,   \* RegisterProfile table
    users,              \* auth User table
    userProfiles,       \* UserProfile table
    outbox,             \* mail.outbox: messages handed to mail.send_mail
    nextId,             \* autoincrement primary keys, per table
    calls,              \* number of manager calls made so far
    lastCall,           \* the last manager call and what it returned
    instances,          \* FacebookBannerInstance table: id -> row
    stats,              \* FacebookClickStats table
    now,                \* wall clock: [hour, minute], in half hours
    nextStatId,         \* autoincrement primary key of FacebookClickStats
    task,               \* Celery worker slots: slot -> local state of its task
    launched            \* number of tasks started so far

userVars == <<registerProfiles, users, userProfiles, outbox, nextId,
              calls, lastCall>>
fbVars == <<instances, stats, now, nextStatId, task, launched>>
vars == <<registerProfiles, users, userProfiles, outbox, nextId, calls,
          lastCall, instances, stats, now, nextStatId, task,
          launched>>

NoCall == [op |-> "none"]

\* ---------------------------------------------------- users/models.py
AllHex(key, n) == \A i \in 1..n : key[i] \in HexChars

\* SHA1_RE.match(key) for SHA1_RE = re.compile('^[a-f0-9]{40}$').
\* In Python, '$' matches at the end of the string and also just before a
\* newline that is the last character of the string.
SHA1_RE_match(key) ==
    \/ Len(key) = DigestLen /\ AllHex(key, DigestLen)
    \/ /\ Len(key) = DigestLen + 1
       /\ key[DigestLen + 1] = "\n"
       /\ AllHex(key, DigestLen)

\* get_or_create replaced by a plain create
GetOrCreateByEmail_AlwaysCreates(rows, email, id) ==
    [id |-> id, email |-> email, display_name |-> "",
     password |-> <<>>, activation_key |-> <<>>, user |-> 0]

\* RegisterProfile.objects.get_or_create(email=email): the row with that
\* email, or a freshly inserted one with field defaults.
GetOrCreateByEmail(rows, email, id) ==
    IF \E r \in rows : r.email = email
    THEN CHOOSE r \in rows : r.email = email
    ELSE [id |-> id, email |-> email, display_name |-> "",
          password |-> <<>>, activation_key |-> <<>>, user |-> 0]

\* Model.save() of a row: update by primary key, insert when new
SaveRow(rows, row) == {r \in rows : r.id # row.id} \cup {row}

\* reverse('users.activate', kwargs={'activation_key': key})
UrlPrefix == <<"/users/activate/">>
Reverse(key) == UrlPrefix \o key
EmailedToken(url) == SubSeq(url, Len(UrlPrefix) + 1, Len(url))

\* RegisterManager._send_email
ActivationEmail(profile) ==
    [subject |-> ACTIVATION_EMAIL_SUBJECT,
     domain |-> SITE_URL,
     activate_url |-> Reverse(profile.activation_key),
     sender |-> "DEFAULT_FROM_EMAIL",
     recipients |-> {profile.email}]

\* RegisterManager.create_profile(display_name, email, password)
create_profile(display_name, email, password, salt) ==
    LET activation_key == HmacSha1Hex(salt, email)
        got == GetOrCreateByEmail(registerProfiles, email, nextId.reg)
        created == got \notin registerProfiles
        profile == [got EXCEPT !.display_name = display_name,
                               !.activation_key = activation_key,
                               !.password = hash_password(password)]
    IN /\ calls < MaxCalls
       /\ registerProfiles' = SaveRow(registerProfiles, profile)
       /\ nextId' = IF created THEN [nextId EXCEPT !.reg = @ + 1] ELSE nextId
       /\ outbox' = Append(outbox, ActivationEmail(profile))
       /\ calls' = calls + 1
       /\ lastCall' = [op |-> "create_profile", email |-> email,
                       display_name |-> display_name,
                       password |-> password, salt |-> salt,
                       result |-> "RegisterProfile", profile |-> profile,
                       created |-> created]
       /\ UNCHANGED <<users, userProfiles>>

\* RegisterManager.get_by_key(key): what it returns and whether the
\* RegisterProfile table was queried on activation_key
GetByKey(rows, key) ==
    IF SHA1_RE_match(key)
    THEN LET found == {r \in rows : r.activation_key = key}
         IN IF Cardinality(found) = 1
            THEN [outcome |-> "found", queried |-> TRUE,
                  id |-> (CHOOSE r \in found : TRUE).id]
            ELSE IF found = {}
            THEN [outcome |-> "None", queried |-> TRUE, id |-> 0]
            ELSE [outcome |-> "MultipleObjectsReturned", queried |-> TRUE,
                  id |-> 0]
    ELSE [outcome |-> "None", queried |-> FALSE, id |-> 0]

\* the made-up username: hashlib.sha1(reg_profile.email).hexdigest()[:30]
Username(email) == SubSeq(Sha1Hex(email), 1, UsernameLen)

\* User(...).save(): auth User.username is unique, so the INSERT is refused
\* when a row with that username exists
UserSaveRefused(rows, username) == \E u \in rows : u.username = username

\* add_default_permissions (post_save receiver, created=True)
DefaultPermissions == {"can_share_website"}

\* RegisterManager.activate_profile(key)
activate_profile(key) ==
    LET got == GetByKey(registerProfiles, key)
        present == \E r \in registerProfiles : r.activation_key = key
        call == [op |-> "activate_profile", key |-> key,
                 queried |-> got.queried, present |-> present]
    IN /\ calls < MaxCalls
       /\ calls' = calls + 1
       /\ UNCHANGED outbox
       /\ IF got.outcome = "found"
          THEN LET reg_profile ==
                       CHOOSE r \in registerProfiles : r.id = got.id
                   username == Username(reg_profile.email)
                   user == [id |-> nextId.user, username |-> username,
                            email |-> reg_profile.email,
                            password |-> reg_profile.password,
                            is_active |-> TRUE,
                            user_permissions |-> DefaultPermissions]
               IN IF UserSaveRefused(users, username)
                  THEN /\ lastCall' = call @@ [result |-> "IntegrityError",
                                               id |-> 0]
                       /\ UNCHANGED <<registerProfiles, users, userProfiles,
                                      nextId>>
                  ELSE /\ users' = users \cup {user}
                       /\ userProfiles' = userProfiles \cup
                              {[user |-> user.id,
                                display_name |-> reg_profile.display_name]}
                       /\ registerProfiles' =
                              {r \in registerProfiles : r.id # reg_profile.id}
                       /\ nextId' = [nextId EXCEPT !.user = @ + 1]
                       /\ lastCall' = call @@ [result |-> "User",
                                               id |-> user.id]
          ELSE /\ lastCall' = call @@ [result |-> got.outcome, id |-> 0]
               /\ UNCHANGED <<registerProfiles, users, userProfiles, nextId>>

\* ---------------------------------------------------- facebook/tasks.py
KnownIds == {1, 2}
UnknownIds == {3}
TaskIds == KnownIds \cup UnknownIds
Workers == {1, 2}

AddClickTask == "add_click"
GenerateTask == "generate_banner_instance_image"

\* a worker slot between tasks, with how its last task ended
Idle(kind, result) == [pc |-> "idle", kind |-> kind, result |-> result]

\* facebook.utils.current_hour(): the clock truncated to the hour
current_hour(t) == [t EXCEPT !.minute = 0]

\* get_object_or_none(FacebookBannerInstance, id=banner_instance_id)
get_object_or_none(rows, id) ==
    IF id \in DOMAIN rows
    THEN [found |-> TRUE, row |-> rows[id]]
    ELSE [found |-> FALSE]

\* the increment of total_clicks forgotten
BumpTotalClicks_Lost(bi) == bi

\* banner_instance.total_clicks += 1
BumpTotalClicks(bi) == [bi EXCEPT !.total_clicks = @ + 1]

\* banner_instance.save(): writes every field of the in-memory copy
SaveInstance(rows, id, bi) == [rows EXCEPT ![id] = bi]

\* the SELECT of get_or_create(hour=..., banner_instance=...)
StatsFor(rows, hour, id) ==
    {r \in rows : r.hour = hour /\ r.banner_instance = id}

\* the INSERT of get_or_create: FacebookClickStats has no uniqueness
\* constraint on (hour, banner_instance), so it is never refused
NewStats(pk, hour, id) ==
    [id |-> pk, hour |-> hour, banner_instance |-> id, clicks |-> 0]

\* the bucket counted twice per click
BumpClicks_ByTwo(st) == [st EXCEPT !.clicks = @ + 2]

\* stats.clicks += 1
BumpClicks(st) == [st EXCEPT !.clicks = @ + 1]

\* add_click, lines 22-24: load the instance, or stop when there is none
AddClickLoad(w, id) ==
    LET got == get_object_or_none(instances, id)
    IN /\ task[w].pc = "idle"
       /\ launched < MaxTasks
       /\ launched' = launched + 1
       /\ task' = [task EXCEPT ![w] =
              IF got.found
              THEN [kind |-> AddClickTask, pc |-> "ac_loaded", id |-> id,
                    bi |-> got.row]
              ELSE Idle(AddClickTask, "noop")]
       /\ UNCHANGED <<instances, stats, now, nextStatId>>
       /\ UNCHANGED userVars

\* add_click, lines 25-26
AddClickSaveInstance(w) ==
    /\ task[w].pc = "ac_loaded"
    /\ LET bi == BumpTotalClicks(task[w].bi)
       IN /\ instances' = SaveInstance(instances, task[w].id, bi)
          /\ task' = [task EXCEPT ![w] =
                 [kind |-> AddClickTask, pc |-> "ac_saved",
                  id |-> task[w].id, bi |-> bi]]
    /\ UNCHANGED <<stats, now, nextStatId, launched>>
    /\ UNCHANGED userVars

\* add_click, lines 28-30: the lookup half of get_or_create
AddClickGetStats(w) ==
    /\ task[w].pc = "ac_saved"
    /\ LET hour == current_hour(now)
           found == StatsFor(stats, hour, task[w].id)
       IN task' = [task EXCEPT ![w] =
              IF found = {}
              THEN [kind |-> AddClickTask, pc |-> "ac_create",
                    id |-> task[w].id, hour |-> hour]
              ELSE IF Cardinality(found) = 1
              THEN [kind |-> AddClickTask, pc |-> "ac_got", id |-> task[w].id,
                    st |-> CHOOSE r \in found : TRUE]
              ELSE Idle(AddClickTask, "MultipleObjectsReturned")]
    /\ UNCHANGED <<instances, stats, now, nextStatId, launched>>
    /\ UNCHANGED userVars

\* add_click, lines 28-30: the insert half of get_or_create
AddClickCreateStats(w) ==
    /\ task[w].pc = "ac_create"
    /\ LET st == NewStats(nextStatId, task[w].hour, task[w].id)
       IN /\ stats' = stats \cup {st}
          /\ task' = [task EXCEPT ![w] =
                 [kind |-> AddClickTask, pc |-> "ac_got",
                  id |-> task[w].id, st |-> st]]
    /\ nextStatId' = nextStatId + 1
    /\ UNCHANGED <<instances, now, launched>>
    /\ UNCHANGED userVars

\* add_click, lines 31-32
AddClickSaveStats(w) ==
    /\ task[w].pc = "ac_got"
    /\ stats' = SaveRow(stats, BumpClicks(task[w].st))
    /\ task' = [task EXCEPT ![w] = Idle(AddClickTask, "done")]
    /\ UNCHANGED <<instances, now, nextStatId, launched>>
    /\ UNCHANGED userVars

\* the worker slot after a whole add_click(id) call
Ran(id, result) == Idle(AddClickTask, result) @@ [id |-> id]

\* add_click run from its first line to its last with nothing in between
add_click(id) ==
    LET got == get_object_or_none(instances, id)
        bi == BumpTotalClicks(got.row)
        hour == current_hour(now)
        found == StatsFor(stats, hour, id)
        st == IF found = {} THEN NewStats(nextStatId, hour, id)
              ELSE CHOOSE r \in found : TRUE
    IN /\ launched < MaxTasks
       /\ launched' = launched + 1
       /\ IF ~got.found
          THEN /\ task' = [task EXCEPT ![1] = Ran(id, "noop")]
               /\ UNCHANGED <<instances, stats, nextStatId>>
          ELSE /\ instances' = SaveInstance(instances, id, bi)
               /\ IF Cardinality(found) > 1
                  THEN /\ task' = [task EXCEPT ![1] =
                              Ran(id, "MultipleObjectsReturned")]
                       /\ UNCHANGED <<stats, nextStatId>>
                  ELSE /\ stats' = SaveRow(stats, BumpClicks(st))
                       /\ nextStatId' = IF found = {} THEN nextStatId + 1
                                        ELSE nextStatId
                       /\ task' = [task EXCEPT ![1] = Ran(id, "done")]
       /\ UNCHANGED now
       /\ UNCHANGED userVars

\* what requests.get(picture_url) can do
FetchOutcomes == {"ok", "RequestException"}

\* what Image.open(...) / .load() of the photo and the banner can do: PIL
\* reports data it cannot identify or that is truncated with IOError; a
\* ValueError comes from a bad mode or an image field without a file
DecodeOutcomes == {"ok", "ValueError", "IOError"}

\* the except clauses of generate_banner_instance_image
CaughtByFetchHandler(exc) == exc = "RequestException"
CaughtByDecodeHandler(exc) == exc = "ValueError"

\* generate_banner_instance_image, lines 41-44
GenerateLoad(w, id) ==
    LET got == get_object_or_none(instances, id)
    IN /\ task[w].pc = "idle"
       /\ launched < MaxTasks
       /\ launched' = launched + 1
       /\ task' = [task EXCEPT ![w] =
              IF got.found
              THEN [kind |-> GenerateTask, pc |-> "gi_loaded", id |-> id,
                    bi |-> got.row]
              ELSE Idle(GenerateTask, "noop")]
       /\ UNCHANGED <<instances, stats, now, nextStatId>>
       /\ UNCHANGED userVars

\* generate_banner_instance_image, lines 47-52
GenerateFetch(w) ==
    /\ task[w].pc = "gi_loaded"
    /\ \E r \in FetchOutcomes :
          task' = [task EXCEPT ![w] =
              IF r = "ok"
              THEN [kind |-> GenerateTask, pc |-> "gi_fetched",
                    id |-> task[w].id, bi |-> task[w].bi]
              ELSE IF CaughtByFetchHandler(r)
              THEN Idle(GenerateTask, "logged")
              ELSE Idle(GenerateTask, r)]
    /\ UNCHANGED <<instances, stats, now, nextStatId, launched>>
    /\ UNCHANGED userVars

\* generate_banner_instance_image, lines 54-83: decode both images, draw
\* the border and the avatar, and custom_image.save(...), which also saves
\* the in-memory instance
GenerateComposite(w) ==
    /\ task[w].pc = "gi_fetched"
    /\ \E r \in DecodeOutcomes :
          IF r = "ok"
          THEN /\ instances' = SaveInstance(instances, task[w].id,
                      [task[w].bi EXCEPT !.custom_image = "custom_image.png"])
               /\ task' = [task EXCEPT ![w] = Idle(GenerateTask, "done")]
          ELSE /\ task' = [task EXCEPT ![w] =
                      IF CaughtByDecodeHandler(r)
                      THEN Idle(GenerateTask, "logged")
                      ELSE Idle(GenerateTask, r)]
               /\ UNCHANGED instances
    /\ UNCHANGED <<stats, now, nextStatId, launched>>
    /\ UNCHANGED userVars

\* half an hour passes
Tick ==
    /\ ~(now.hour = MaxHour /\ now.minute = 30)
    /\ now' = IF now.minute = 0 THEN [now EXCEPT !.minute = 30]
              ELSE [hour |-> now.hour + 1, minute |-> 0]
    /\ UNCHANGED <<instances, stats, nextStatId, task, launched>>
    /\ UNCHANGED userVars

\* -------------------------------------------------------- the properties
\* the shape the documentation gives: exactly 40 characters in [a-f0-9]
IsSha1Hex(key) == Len(key) = DigestLen /\ AllHex(key, DigestLen)

PendingFor(rows, email) == {r \in rows : r.email = email}
PendingWithKey(rows, key) == {r \in rows : r.activation_key = key}

IsCreateStep == calls' = calls + 1 /\ lastCall'.op = "create_profile"
IsActivateStep == calls' = calls + 1 /\ lastCall'.op = "activate_profile"

\* C1: activate_profile(key) returns None and changes nothing when key is
\* not 40 lowercase hex characters or no pending RegisterProfile has it;
\* otherwise it creates exactly one User and one UserProfile, deletes that
\* pending RegisterProfile and returns the new User.
C1_ActivateIsPartialFunction ==
    [][IsActivateStep =>
        LET key == lastCall'.key
            pending == PendingWithKey(registerProfiles, key)
        IN IF ~IsSha1Hex(key) \/ pending = {}
           THEN /\ lastCall'.result = "None"
                /\ users' = users
                /\ userProfiles' = userProfiles
                /\ registerProfiles' = registerProfiles
           ELSE /\ lastCall'.result = "User"
                /\ Cardinality(users' \ users) = 1
                /\ users \subseteq users'
                /\ Cardinality(userProfiles' \ userProfiles) = 1
                /\ userProfiles \subseteq userProfiles'
                /\ registerProfiles' = registerProfiles \ pending
                /\ \E u \in users' \ users : u.id = lastCall'.id
      ]_vars

\* C2: the activation token is single-use: of two consecutive
\* activate_profile calls with the same key, valid and pending before the
\* first, the first returns a User and the second returns None and creates
\* no further User or UserProfile.
C2_TokenIsSingleUse ==
    [][(/\ IsActivateStep
        /\ lastCall.op = "activate_profile"
        /\ lastCall.key = lastCall'.key
        /\ IsSha1Hex(lastCall.key)
        /\ lastCall.present)
       => /\ lastCall.result = "User"
          /\ lastCall'.result = "None"
          /\ users' = users
          /\ userProfiles' = userProfiles
      ]_vars

\* C3: there is at most one pending RegisterProfile per email, exactly one
\* for an email signed up and not yet activated; create_profile for an email
\* that has a pending registration replaces its display_name, password and
\* activation_key instead of adding a row.
C3_OnePendingPerEmail ==
    [][\A e \in Emails :
        LET before == PendingFor(registerProfiles, e)
            after == PendingFor(registerProfiles', e)
        IN /\ Cardinality(after) <= 1
           /\ (IsCreateStep /\ lastCall'.email = e) =>
                 /\ Cardinality(after) = 1
                 /\ \A r \in after :
                       /\ r.display_name = lastCall'.display_name
                       /\ r.password = hash_password(lastCall'.password)
                       /\ r.activation_key = HmacSha1Hex(lastCall'.salt, e)
                       /\ \A b \in before : b.id = r.id
                 /\ before # {} =>
                       Cardinality(registerProfiles')
                           = Cardinality(registerProfiles)
           /\ (IsCreateStep /\ lastCall'.email # e) => after = before
           /\ (before # {} /\ after = {}) =>
                 /\ IsActivateStep
                 /\ lastCall'.result = "User"
                 /\ \A b \in before : b.activation_key = lastCall'.key
      ]_vars

\* a second signup for the same email with another display name and salt
\* has replaced the pending registration
C3_Witness ==
    /\ lastCall.op = "create_profile"
    /\ ~lastCall.created
    /\ PendingFor(registerProfiles, lastCall.email) = {lastCall.profile}
    /\ Len(outbox) >= 2
    /\ outbox[Len(outbox) - 1].recipients = {lastCall.email}
    /\ outbox[Len(outbox) - 1].activate_url # outbox[Len(outbox)].activate_url

\* C4: create_profile stores a pending registration and sends exactly one
\* email to that address whose token is the stored activation_key;
\* activate_profile with that emailed token then yields a User with that
\* email and the stored hashed password, a UserProfile with that
\* display_name, and no pending registration for the email.
C4_SignupActivationRoundTrip ==
    [][/\ IsCreateStep =>
            /\ Len(outbox') = Len(outbox) + 1
            /\ LET m == outbox'[Len(outbox')]
               IN /\ m.recipients = {lastCall'.email}
                  /\ \E r \in registerProfiles' :
                        /\ r.email = lastCall'.email
                        /\ r.activation_key = EmailedToken(m.activate_url)
       /\ (/\ IsActivateStep
           /\ lastCall.op = "create_profile"
           /\ lastCall'.key
                = EmailedToken(outbox[Len(outbox)].activate_url))
          => /\ lastCall'.result = "User"
             /\ \E u \in users' \ users :
                   /\ u.id = lastCall'.id
                   /\ u.email = lastCall.email
                   /\ u.password = hash_password(lastCall.password)
                   /\ \E p \in userProfiles' :
                         /\ p.user = u.id
                         /\ p.display_name = lastCall.display_name
             /\ PendingFor(registerProfiles', lastCall.email) = {}
      ]_vars

\* C9: shape validation precedes lookup: a key that is not exactly 40
\* characters of [a-f0-9] yields None without a store query; the
\* RegisterProfile table is queried on activation_key only for keys of
\* exactly that shape.
C9_ShapeCheckedBeforeLookup ==
    lastCall.op = "activate_profile" =>
        /\ lastCall.queried <=> IsSha1Hex(lastCall.key)
        /\ ~IsSha1Hex(lastCall.key) => lastCall.result = "None"

RECURSIVE SumClicks(_)
SumClicks(rows) ==
    IF rows = {} THEN 0
    ELSE LET r == CHOOSE x \in rows : TRUE
         IN r.clicks + SumClicks(rows \ {r})

StatsOf(rows, id) == {r \in rows : r.banner_instance = id}

IsAddClickRun == launched' = launched + 1 /\ task'[1].kind = AddClickTask

\* C5: add_click on an unknown id writes nothing; add_click on a known id,
\* run to completion, adds exactly 1 to that instance's total_clicks and
\* exactly 1 to its current-hour FacebookClickStats row (created with value
\* 1 when absent) and leaves every other instance and bucket unchanged.
C5_AddClickEffect ==
    [][IsAddClickRun =>
        LET id == task'[1].id
            hour == current_hour(now)
            before == StatsFor(stats, hour, id)
            after == StatsFor(stats', hour, id)
        IN IF id \notin DOMAIN instances
           THEN instances' = instances /\ stats' = stats
           ELSE /\ instances'[id].total_clicks
                      = instances[id].total_clicks + 1
                /\ instances'[id].custom_image = instances[id].custom_image
                /\ \A j \in DOMAIN instances \ {id} :
                      instances'[j] = instances[j]
                /\ DOMAIN instances' = DOMAIN instances
                /\ Cardinality(after) = 1
                /\ before = {} => \A r \in after : r.clicks = 1
                /\ \A b \in before : \A r \in after :
                      r.id = b.id /\ r.clicks = b.clicks + 1
                /\ stats' \ after = stats \ before
      ]_vars

\* a completed add_click that incremented an existing bucket, on an
\* instance that also has a row in another hour bucket
C5_Witness ==
    /\ task[1].kind = AddClickTask
    /\ task[1].result = "done"
    /\ \E r \in stats :
          /\ r.banner_instance = task[1].id
          /\ r.hour = current_hour(now)
          /\ r.clicks = 2
          /\ \E o \in stats : o.banner_instance = r.banner_instance
                               /\ o.hour # r.hour

\* C6: there is at most one FacebookClickStats row per (hour bucket, banner
\* instance), however the add_click tasks are interleaved.
C6_OneRowPerHourAndInstance ==
    \A r1, r2 \in stats :
        (r1.hour = r2.hour /\ r1.banner_instance = r2.banner_instance)
            => r1 = r2

\* C7: the persisted total_clicks of every FacebookBannerInstance never
\* decreases, also when add_click tasks interleave.
C7_TotalClicksMonotonic ==
    [][\A id \in KnownIds :
          instances'[id].total_clicks >= instances[id].total_clicks]_vars

GenerateFailures == {"noop", "logged"}

\* C8: generate_banner_instance_image never raises; on an unknown id, a
\* failed fetch or a failed decode it leaves the instances unchanged, and it
\* writes the composite only when lookup, fetch and decodes all succeeded.
C8_GenerateNeverRaises ==
    [][\A w \in Workers :
        (task'[w] # task[w] /\ task'[w].kind = GenerateTask) =>
            /\ task'[w].pc = "idle" =>
                  task'[w].result \in GenerateFailures \cup {"done"}
            /\ (task'[w].pc = "idle" /\ task'[w].result # "done") =>
                  instances' = instances
            /\ instances' # instances =>
                  /\ task[w].pc = "gi_fetched"
                  /\ task'[w].result = "done"
                  /\ instances'[task[w].id].custom_image = "custom_image.png"
      ]_vars

InSecondHalf(id) ==
    \E w \in Workers :
        /\ task[w].pc \in {"ac_saved", "ac_create", "ac_got"}
        /\ task[w].id = id

\* C10: with add_click calls run one after another, an instance's
\* total_clicks equals the sum of clicks over its FacebookClickStats rows,
\* except between the two saves of a call, where it is one ahead.
C10_TotalEqualsSumOfBuckets ==
    \A id \in KnownIds :
        LET total == instances[id].total_clicks
            sum == SumClicks(StatsOf(stats, id))
        IN IF InSecondHalf(id) THEN total = sum + 1 ELSE total = sum

\* all calls finished, on an instance clicked in two different hour buckets
C10_Witness ==
    /\ \A w \in Workers : task[w].pc = "idle"
    /\ \E id \in KnownIds :
          /\ instances[id].total_clicks >= 2
          /\ Cardinality(StatsOf(stats, id)) >= 2

CreateProfile ==
    /\ \E d \in DisplayNames, e \in Emails, p \in RawPasswords, s \in Salts :
           create_profile(d, e, p, s)
    /\ UNCHANGED fbVars

ActivateProfile ==
    /\ \E k \in Keys : activate_profile(k)
    /\ UNCHANGED fbVars

InitUsers ==
    /\ registerProfiles = {}
    /\ users = {}
    /\ userProfiles = {}
    /\ outbox = <<>>
    /\ nextId = [reg |-> 1, user |-> 1]
    /\ calls = 0
    /\ lastCall = NoCall

InitFb ==
    /\ instances = [i \in KnownIds |->
                        [total_clicks |-> 0, custom_image |-> ""]]
    /\ stats = {}
    /\ now = [hour |-> 0, minute |-> 0]
    /\ nextStatId = 1
    /\ task = [w \in Workers |-> Idle("none", "none")]
    /\ launched = 0

Init == InitUsers /\ InitFb

Next == CreateProfile \/ ActivateProfile

\* the registration workflow, one manager call at a time
Spec == Init /\ [][Next]_vars

AddClickStep(w) ==
    \/ \E id \in TaskIds : AddClickLoad(w, id)
    \/ AddClickSaveInstance(w)
    \/ AddClickGetStats(w)
    \/ AddClickCreateStats(w)
    \/ AddClickSaveStats(w)

GenerateStep(w) ==
    \/ \E id \in TaskIds : GenerateLoad(w, id)
    \/ GenerateFetch(w)
    \/ GenerateComposite(w)

NextClicks == (\E w \in Workers : AddClickStep(w)) \/ Tick

\* add_click tasks on concurrent workers
SpecClicks == Init /\ [][NextClicks]_vars

NextTasks ==
    \/ \E w \in Workers : AddClickStep(w)
    \/ \E w \in Workers : GenerateStep(w)
    \/ Tick

\* both tasks on concurrent workers
SpecTasks == Init /\ [][NextTasks]_vars

NextSerial == AddClickStep(1) \/ Tick

\* add_click tasks on a single worker, one after another
SpecSerial == Init /\ [][NextSerial]_vars

NextSeq == (\E id \in TaskIds : add_click(id)) \/ Tick

\* add_click calls each run to completion
SpecSeq == Init /\ [][NextSeq]_vars

====
